---- MODULE Spec2Model ----
(***************************************************************************)
(* A model of src/src/pages/DiseaseLibrary.tsx: the section extractor      *)
(* parseDetailedInfo (a regular-expression scan followed by a loop that    *)
(* fills a plain JavaScript object), and the search handler handleSearch   *)
(* with its asynchronous steps.                                            *)
(*                                                                         *)
(* Strings are sequences of one-character strings; offsets are 0-based as  *)
(* in the source, so the character at offset i of s is s[i + 1].           *)
(***************************************************************************)
EXTENDS Integers, Sequences, FiniteSets, TLC

(***************************************************************************)
(* Characters and the character classes of the regular expression          *)
(***************************************************************************)
NL == "\n"

Digits == {"0", "1", "2", "3", "4", "5", "6", "7", "8", "9"}

LineTerminators == {NL, "\r"}

WhiteSpace == {" ", "\t", NL, "\r"}

\* \d
IsDigit(c) == c \in Digits

\* \s (white space and line terminators)
IsSpace(c) == c \in WhiteSpace

\* . without the s flag: any character but a line terminator
IsDot(c) == c \notin LineTerminators

\* the character at 0-based offset i, or "" past the end
CharAt(s, i) == IF i >= 0 /\ i < Len(s) THEN s[i + 1] ELSE ""

\* String.prototype.substring(a, b) for 0 <= a, b
Substring(s, a, b) ==
  LET lo == IF a < b THEN a ELSE b
      hi == IF a < b THEN b ELSE a
      h  == IF hi > Len(s) THEN Len(s) ELSE hi
  IN  SubSeq(s, lo + 1, h)

RECURSIVE TrimStart(_)
TrimStart(s) ==
  IF s # <<>> /\ IsSpace(Head(s)) THEN TrimStart(Tail(s)) ELSE s

RECURSIVE TrimEnd(_)
TrimEnd(s) ==
  IF s # <<>> /\ IsSpace(s[Len(s)]) THEN TrimEnd(SubSeq(s, 1, Len(s) - 1)) ELSE s

\* String.prototype.trim
Trim(s) == TrimEnd(TrimStart(s))

(***************************************************************************)
(* headingRegex = /^\d+\.\s*\*\*\s*(.+?)\s*:\*\*/gm, matched as a          *)
(* backtracking engine matches it: a greedy quantifier tries its longest   *)
(* run first and gives characters back one at a time, the lazy (.+?)       *)
(* tries its shortest run first.                                           *)
(***************************************************************************)
NoMatch == [ok |-> FALSE, index |-> 0, length |-> 0, title |-> <<>>]

\* the number of characters from offset i on that are in class C
RECURSIVE Run(_, _, _)
Run(s, i, C) == IF i < Len(s) /\ s[i + 1] \in C THEN 1 + Run(s, i + 1, C) ELSE 0

\* the pattern without its ^ anchor: a match may start anywhere
AtAnyOffset(s, p) == TRUE

\* ^ under the m flag: the start of the input or just after a line terminator
AtLineStart(s, p) == p = 0 \/ CharAt(s, p - 1) \in LineTerminators

\* :\*\* at offset i
ColonStars(s, i) ==
  CharAt(s, i) = ":" /\ CharAt(s, i + 1) = "*" /\ CharAt(s, i + 2) = "*"

\* \s*:\*\* from offset e, the \s* holding k characters (greedy: k counts down).
\* The offset after the match, or -1.
RECURSIVE CloseFrom(_, _, _)
CloseFrom(s, e, k) ==
  IF k < 0 THEN -1
  ELSE IF ColonStars(s, e + k) THEN e + k + 3
  ELSE CloseFrom(s, e, k - 1)

\* (.+)\s*:\*\* from offset t, the group greedy: its longest run first
RECURSIVE GreedyTitleUpTo(_, _, _)
GreedyTitleUpTo(s, t, e) ==
  IF e <= t THEN <<-1, -1>>
  ELSE LET end == CloseFrom(s, e, Run(s, e, WhiteSpace))
       IN  IF end >= 0 THEN <<e, end>> ELSE GreedyTitleUpTo(s, t, e - 1)

TitleFromGreedy(s, t, e) ==
  GreedyTitleUpTo(s, t, t + Run(s, t, { CharAt(s, k) : k \in 0..(Len(s) - 1) } \ LineTerminators))

\* (.+?)\s*:\*\* from offset t, the group holding text[t .. e) (lazy: e counts
\* up). <<e, end>>, or <<-1, -1>>.
RECURSIVE TitleFrom(_, _, _)
TitleFrom(s, t, e) ==
  IF e > Len(s) \/ ~IsDot(CharAt(s, e - 1)) THEN <<-1, -1>>
  ELSE LET end == CloseFrom(s, e, Run(s, e, WhiteSpace))
       IN  IF end >= 0 THEN <<e, end>> ELSE TitleFrom(s, t, e + 1)

\* \s*(.+?)\s*:\*\* from offset o, the first \s* holding j characters (greedy).
\* <<t, e, end>>, or <<-1, -1, -1>>.
RECURSIVE OpenSpaceFrom(_, _, _)
OpenSpaceFrom(s, o, j) ==
  IF j < 0 THEN <<-1, -1, -1>>
  ELSE LET r == TitleFrom(s, o + j, o + j + 1)
       IN  IF r[2] >= 0 THEN <<o + j, r[1], r[2]>> ELSE OpenSpaceFrom(s, o, j - 1)

\* \s*\*\*... from offset q, the \s* holding j characters (greedy)
RECURSIVE StarsFrom(_, _, _)
StarsFrom(s, q, j) ==
  IF j < 0 THEN <<-1, -1, -1>>
  ELSE LET o == q + j + 2
           r == IF CharAt(s, q + j) = "*" /\ CharAt(s, q + j + 1) = "*"
                THEN OpenSpaceFrom(s, o, Run(s, o, WhiteSpace))
                ELSE <<-1, -1, -1>>
       IN  IF r[3] >= 0 THEN r ELSE StarsFrom(s, q, j - 1)

\* \d+\.... from offset p, the \d+ holding k characters (greedy, at least one)
RECURSIVE DigitsFrom(_, _, _)
DigitsFrom(s, p, k) ==
  IF k < 1 THEN <<-1, -1, -1>>
  ELSE LET q == p + k + 1
           r == IF CharAt(s, p + k) = "."
                THEN StarsFrom(s, q, Run(s, q, WhiteSpace))
                ELSE <<-1, -1, -1>>
       IN  IF r[3] >= 0 THEN r ELSE DigitsFrom(s, p, k - 1)

\* one attempt of the whole pattern at offset p; the match object's index,
\* match[0].length and match[1].trim()
MatchAt(s, p) ==
  IF ~AtLineStart(s, p) THEN NoMatch
  ELSE LET r == DigitsFrom(s, p, Run(s, p, Digits))
       IN  IF r[3] < 0 THEN NoMatch
           ELSE [ok |-> TRUE, index |-> p, length |-> r[3] - p,
                 title |-> Trim(Substring(s, r[1], r[2]))]

\* headingRegex.exec(details) with lastIndex = from: the leftmost match
RECURSIVE Exec(_, _)
Exec(s, from) ==
  IF from > Len(s) THEN NoMatch
  ELSE LET m == MatchAt(s, from)
       IN  IF m.ok THEN m ELSE Exec(s, from + 1)

\* the while loop that collects the matches; exec leaves lastIndex at the
\* end of the match it returned
RECURSIVE FindMatches(_, _)
FindMatches(s, lastIndex) ==
  LET m == Exec(s, lastIndex)
  IN  IF ~m.ok THEN <<>>
      ELSE <<[title |-> m.title, index |-> m.index, length |-> m.length]>>
           \o FindMatches(s, m.index + m.length)

(***************************************************************************)
(* JavaScript values as parseDetailedInfo can receive them. The parameter   *)
(* is typed string | null, but it is fed from data.details of a JSON body,  *)
(* so at run time it can be any JSON value.                                 *)
(*   str   the characters of a string, or what an object's toString gives   *)
(*   num   the value of a number                                            *)
(*   items the (string) elements of an array                                *)
(***************************************************************************)
JsValue(kind, str, num, items) ==
  [kind |-> kind, str |-> str, num |-> num, items |-> items]

JsNull == JsValue("null", <<>>, 0, <<>>)

JsUndefined == JsValue("undefined", <<>>, 0, <<>>)

JsString(s) == JsValue("string", s, 0, <<>>)

JsNumber(n) == JsValue("number", <<>>, n, <<>>)

JsArray(items) == JsValue("array", <<>>, 0, items)

\* an object whose toString() returns s
JsObject(s) == JsValue("object", s, 0, <<>>)

DigitChar(d) ==
  CASE d = 0 -> "0" [] d = 1 -> "1" [] d = 2 -> "2" [] d = 3 -> "3" [] d = 4 -> "4"
    [] d = 5 -> "5" [] d = 6 -> "6" [] d = 7 -> "7" [] d = 8 -> "8" [] d = 9 -> "9"

DigitValue(c) == CHOOSE d \in 0..9 : DigitChar(d) = c

\* Number.prototype.toString for a non-negative integer
RECURSIVE NumberToString(_)
NumberToString(n) ==
  IF n < 10 THEN <<DigitChar(n)>>
  ELSE NumberToString(n \div 10) \o <<DigitChar(n % 10)>>

\* Array.prototype.join(",") of an array of strings
RECURSIVE Join(_)
Join(items) ==
  IF items = <<>> THEN <<>>
  ELSE IF Len(items) = 1 THEN items[1]
  ELSE items[1] \o <<",">> \o Join(Tail(items))

\* ToString, the coercion RegExp.prototype.exec applies to its argument
JsToString(v) ==
  CASE v.kind = "string"    -> v.str
    [] v.kind = "null"      -> <<"n", "u", "l", "l">>
    [] v.kind = "undefined" -> <<"u", "n", "d", "e", "f", "i", "n", "e", "d">>
    [] v.kind = "number"    -> NumberToString(v.num)
    [] v.kind = "array"     -> Join(v.items)
    [] v.kind = "object"    -> v.str

\* !details
IsFalsy(v) ==
  \/ v.kind \in {"null", "undefined"}
  \/ v.kind = "string" /\ v.str = <<>>
  \/ v.kind = "number" /\ v.num = 0

\* details.length (undefined, here -1, where the value has no such property)
LengthOf(v) ==
  CASE v.kind = "string" -> Len(v.str)
    [] v.kind = "array"  -> Len(v.items)
    [] OTHER             -> -1

\* whether details.substring is a function
HasSubstring(v) == v.kind = "string"

(***************************************************************************)
(* The sections object: Object.create(null) and the properties assigned to *)
(* it, kept in creation order. Object.keys and Object.entries list the     *)
(* array-index keys first, in ascending numeric order, then the other      *)
(* string keys in creation order (OrdinaryOwnPropertyKeys).                *)
(***************************************************************************)
RECURSIVE ToNumber(_)
ToNumber(k) ==
  IF k = <<>> THEN 0 ELSE 10 * ToNumber(SubSeq(k, 1, Len(k) - 1)) + DigitValue(k[Len(k)])

\* a canonical numeric string of an integer in 0 .. 2^32 - 2. Every such
\* string of up to 9 digits qualifies; longer keys are outside the model.
IsArrayIndex(k) ==
  /\ k # <<>>
  /\ Len(k) <= 9
  /\ \A i \in 1..Len(k) : IsDigit(k[i])
  /\ (Len(k) > 1 => k[1] # "0")

HasKey(obj, k) == \E i \in 1..Len(obj) : obj[i].key = k

Get(obj, k) == obj[CHOOSE i \in 1..Len(obj) : obj[i].key = k].value

\* the assignment, were it guarded by if (!(k in sections))
SetPropertyKeepFirst(obj, k, v) ==
  IF HasKey(obj, k) THEN obj ELSE Append(obj, [key |-> k, value |-> v])

\* sections[k] = v: an existing property keeps its place, a new one is
\* created last
SetProperty(obj, k, v) ==
  IF HasKey(obj, k)
  THEN [i \in 1..Len(obj) |-> IF obj[i].key = k THEN [key |-> k, value |-> v] ELSE obj[i]]
  ELSE Append(obj, [key |-> k, value |-> v])

\* the keys that are (wantIndex) or are not array indices, in their order
RECURSIVE SelectKeys(_, _)
SelectKeys(ks, wantIndex) ==
  IF ks = <<>> THEN <<>>
  ELSE (IF IsArrayIndex(Head(ks)) = wantIndex THEN <<Head(ks)>> ELSE <<>>)
       \o SelectKeys(Tail(ks), wantIndex)

\* ascending numeric order of array-index keys
RECURSIVE SortIndexKeys(_)
SortIndexKeys(ks) ==
  IF ks = <<>> THEN <<>>
  ELSE LET m == CHOOSE i \in 1..Len(ks) :
                  \A j \in 1..Len(ks) : ToNumber(ks[i]) <= ToNumber(ks[j])
       IN  <<ks[m]>> \o SortIndexKeys([i \in 1..(Len(ks) - 1) |->
                                         IF i < m THEN ks[i] ELSE ks[i + 1]])

\* Object.keys(obj)
ObjectKeys(obj) ==
  LET created == [i \in 1..Len(obj) |-> obj[i].key]
  IN  SortIndexKeys(SelectKeys(created, TRUE)) \o SelectKeys(created, FALSE)

\* Object.entries(obj)
ObjectEntries(obj) ==
  LET ks == ObjectKeys(obj)
  IN  [i \in 1..Len(ks) |-> <<ks[i], Get(obj, ks[i])>>]

(***************************************************************************)
(* parseDetailedInfo                                                       *)
(***************************************************************************)
\* const contentStartIndex = currentMatch.index + currentMatch.length
ContentStartIndex(matches, i) == matches[i].index + matches[i].length

\* the end index, were the next heading not looked at
ContentEndIndexAtEnd(details, matches, i) == LengthOf(details)

\* const contentEndIndex = nextMatch ? nextMatch.index : details.length
ContentEndIndex(details, matches, i) ==
  IF i + 1 <= Len(matches) THEN matches[i + 1].index ELSE LengthOf(details)

\* const content = details.substring(contentStartIndex, contentEndIndex).trim()
Content(details, matches, i) ==
  Trim(Substring(details.str, ContentStartIndex(matches, i),
                 ContentEndIndex(details, matches, i)))

\* the assignment, were it guarded by if (content)
StoreSectionIfContent(sections, sectionTitle, content) ==
  IF content = <<>> THEN sections ELSE SetProperty(sections, sectionTitle, content)

\* sections[sectionTitle] = content
StoreSection(sections, sectionTitle, content) ==
  SetProperty(sections, sectionTitle, content)

\* the for loop from index i on. Its first statement that touches
\* details.substring throws a TypeError when details is not a string.
RECURSIVE ExtractSections(_, _, _, _)
ExtractSections(details, matches, i, sections) ==
  IF i > Len(matches) THEN [threw |-> FALSE, sections |-> sections]
  ELSE IF ~HasSubstring(details) THEN [threw |-> TRUE, sections |-> <<>>]
  ELSE ExtractSections(details, matches, i + 1,
         StoreSection(sections, matches[i].title, Content(details, matches, i)))

\* the value returned, or threw = TRUE when the call ends in an exception
parseDetailedInfo(details) ==
  IF IsFalsy(details) THEN [threw |-> FALSE, sections |-> <<>>]
  ELSE ExtractSections(details, FindMatches(JsToString(details), 0), 1, <<>>)

(***************************************************************************)
(* The inputs of the extractor.                                            *)
(*   Texts: up to MaxBlocks blocks after an optional preamble, of at most  *)
(*     MaxLen characters in all; a block is an opener, a title, a closer   *)
(*     and a body, each well-formed or not.                                *)
(*   Documents: up to MaxHeadings well-formed headings, one per line.      *)
(*   Values that are not strings: numbers, arrays and objects.             *)
(***************************************************************************)
MaxBlocks == 2

MaxLen == 22

MaxHeadings == 3

MaxNumber == 12

Preambles == {<<>>, <<"a">>, <<"a", NL>>}

Openers == { <<"1", ".", "*", "*">>, <<"1", "2", ".", NL, "*", "*", " ">> }

Titles ==
  { <<>>, <<"a">>, <<"1">>, <<"2">>, <<":", "*", "*", "a">>, <<"a", ":", "*", "*", "a">> }

Closers == { <<>>, <<":", "*", "*">>, <<" ", NL, ":", "*", "*">> }

Bodies == { <<>>, <<NL>>, <<" ", "a", NL>> }

Blocks == { o \o t \o c \o b : o \in Openers, t \in Titles, c \in Closers, b \in Bodies }

RECURSIVE Texts(_)
Texts(n) ==
  IF n = 0 THEN Preambles
  ELSE LET shorter == Texts(n - 1)
       IN  shorter \cup
           { p[1] \o p[2] :
               p \in { q \in shorter \X Blocks : Len(q[1]) + Len(q[2]) <= MaxLen } }

DocLines ==
  { <<"1", ".", "*", "*">> \o t \o <<":", "*", "*">> \o b \o <<NL>> :
      t \in {<<"a">>, <<"1">>, <<"2">>}, b \in {<<>>, <<" ", "a">>} }

RECURSIVE Documents(_)
Documents(n) ==
  IF n = 0 THEN {<<>>}
  ELSE LET shorter == Documents(n - 1)
       IN  shorter \cup { d \o l : d \in shorter, l \in DocLines }

Inputs ==
  {JsNull, JsUndefined}
    \cup { JsString(t) : t \in Texts(MaxBlocks) \cup Documents(MaxHeadings) }
    \cup { JsNumber(n) : n \in 0..MaxNumber }
    \cup { JsArray(<<>>) }
    \cup { JsArray(<<t>>) : t \in Documents(1) }
    \cup { JsObject(t) : t \in Documents(1) \cup {<<"a">>} }

(***************************************************************************)
(* State.                                                                  *)
(*   details, returned, accordion, pc: one call of the extractor and the   *)
(*     accordion rendered from what it returned.                           *)
(*   The page's React state, the handleSearch invocations (search) and the *)
(*     handleExploreMore invocation (explore) with their positions, and    *)
(*     the number of toasts shown.                                         *)
(***************************************************************************)
VARIABLES details, returned, accordion, pc,
          isCheckingInitialAccess, initialAccessAllowed,
          searchQuery, searchResults, aiSummary, isLoading, apiError,
          detailedInfo, isDetailedLoading, detailedError,
          search, explore, toasts

parserVars == <<details, returned, accordion, pc>>

pageVars ==
  <<isCheckingInitialAccess, initialAccessAllowed, searchQuery, searchResults,
    aiSummary, isLoading, apiError, detailedInfo, isDetailedLoading, detailedError,
    search, explore, toasts>>

vars == <<parserVars, pageVars>>

(***************************************************************************)
(* The page.                                                               *)
(***************************************************************************)
MaxSearches == 2

Searches == 1..MaxSearches

\* what the user can type into the input
Queries == { <<" ">>, <<" ", "a">> }

\* useState(null); a summary or an error is a non-empty string, here the
\* number of the invocation whose response it came from
Null == [of |-> 0]

NoLinks == [set |-> FALSE, query |-> <<>>]

\* both URLs are built from encodeURIComponent(trimmedQuery)
Links(trimmedQuery) == [set |-> TRUE, query |-> trimmedQuery]

\* an invocation of handleSearch: where it stands (pc), the searchQuery its
\* closure holds, response.ok, and how many times it has called fetch and
\* incrementUsage
IdleSearch == [pc |-> "idle", query |-> <<>>, ok |-> FALSE, requests |-> 0, usage |-> 0]

\* the invocation has returned or thrown: its locals are gone
Ended(invocation, how) == [invocation EXCEPT !.pc = how, !.query = <<>>, !.ok = FALSE]

InitPage ==
  /\ isCheckingInitialAccess = TRUE
  /\ initialAccessAllowed = FALSE
  /\ searchQuery = <<>>
  /\ searchResults = NoLinks
  /\ aiSummary = Null
  /\ isLoading = FALSE
  /\ apiError = Null
  /\ detailedInfo = "null"
  /\ isDetailedLoading = FALSE
  /\ detailedError = "null"
  /\ search = [i \in Searches |-> IdleSearch]
  /\ explore = "idle"
  /\ toasts = 0

\* the search form and the results are rendered
FormRendered == ~isCheckingInitialAccess /\ initialAccessAllowed

\* the effect's verifyInitialAccess, from the await of checkAccess on:
\* quota is 0 (denied), anything else (allowed), or checkAccess throws
VerifyInitialAccess ==
  /\ isCheckingInitialAccess
  /\ \E outcome \in {"allowed", "denied", "throws"} :
       /\ initialAccessAllowed' = (outcome = "allowed")
       /\ toasts' = IF outcome = "throws" THEN toasts + 1 ELSE toasts
  /\ isCheckingInitialAccess' = FALSE
  /\ UNCHANGED <<searchQuery, searchResults, aiSummary, isLoading, apiError,
                 detailedInfo, isDetailedLoading, detailedError, search, explore>>

\* onChange of the input
SetSearchQuery(q) ==
  /\ FormRendered
  /\ q # searchQuery
  /\ searchQuery' = q
  /\ UNCHANGED <<isCheckingInitialAccess, initialAccessAllowed, searchResults,
                 aiSummary, isLoading, apiError, detailedInfo, isDetailedLoading,
                 detailedError, search, explore, toasts>>

\* handleSearch up to its first await: the form is submitted (the button is
\* never disabled) and checkAccess is called
Submit(i) ==
  /\ FormRendered
  /\ search[i].pc = "idle"
  /\ i > 1 => search[i - 1].pc # "idle"
  /\ search' = [search EXCEPT ![i].pc = "checkAccess", ![i].query = searchQuery]
  /\ UNCHANGED <<isCheckingInitialAccess, initialAccessAllowed, searchQuery,
                 searchResults, aiSummary, isLoading, apiError, detailedInfo,
                 isDetailedLoading, detailedError, explore, toasts>>

\* the denied branch, were it to clear the results as the empty-query branch does
AccessDeniedClears(i) ==
  /\ toasts' = toasts + 1
  /\ searchResults' = NoLinks
  /\ aiSummary' = Null
  /\ apiError' = Null
  /\ search' = [search EXCEPT ![i] = Ended(search[i], "denied")]
  /\ UNCHANGED <<isLoading, detailedInfo, detailedError>>

\* if (!accessResult.allowed) { toast(...); return; }
AccessDenied(i) ==
  /\ toasts' = toasts + 1
  /\ search' = [search EXCEPT ![i] = Ended(search[i], "denied")]
  /\ UNCHANGED <<searchResults, aiSummary, isLoading, apiError, detailedInfo,
                 detailedError>>

\* if (!trimmedQuery) { ...; return; }
EmptyQuery(i) ==
  /\ searchResults' = NoLinks
  /\ aiSummary' = Null
  /\ apiError' = Null
  /\ search' = [search EXCEPT ![i] = Ended(search[i], "empty")]
  /\ UNCHANGED <<isLoading, detailedInfo, detailedError, toasts>>

\* the reset, the links and the fetch of the summary endpoint
StartSearch(i, trimmedQuery) ==
  /\ searchResults' = Links(trimmedQuery)
  /\ aiSummary' = Null
  /\ apiError' = Null
  /\ detailedInfo' = "null"
  /\ detailedError' = "null"
  /\ isLoading' = TRUE
  /\ search' = [search EXCEPT ![i].pc = "fetch", ![i].requests = @ + 1]
  /\ UNCHANGED toasts

\* handleSearch from the await of checkAccess to the await of fetch
CheckAccessResolves(i) ==
  /\ search[i].pc = "checkAccess"
  /\ \E allowed \in BOOLEAN :
       IF ~allowed THEN AccessDenied(i)
       ELSE IF Trim(search[i].query) = <<>> THEN EmptyQuery(i)
       ELSE StartSearch(i, Trim(search[i].query))
  /\ UNCHANGED <<isCheckingInitialAccess, initialAccessAllowed, searchQuery,
                 isDetailedLoading, explore>>

\* checkAccess throws: handleSearch ends there with a rejected promise
CheckAccessRejects(i) ==
  /\ search[i].pc = "checkAccess"
  /\ search' = [search EXCEPT ![i] = Ended(search[i], "rejected")]
  /\ UNCHANGED <<isCheckingInitialAccess, initialAccessAllowed, searchQuery,
                 searchResults, aiSummary, isLoading, apiError, detailedInfo,
                 isDetailedLoading, detailedError, explore, toasts>>

\* fetch resolves with a response, ok or not: response.json() is awaited
FetchResolves(i) ==
  /\ search[i].pc = "fetch"
  /\ \E ok \in BOOLEAN : search' = [search EXCEPT ![i].pc = "json", ![i].ok = ok]
  /\ UNCHANGED <<isCheckingInitialAccess, initialAccessAllowed, searchQuery,
                 searchResults, aiSummary, isLoading, apiError, detailedInfo,
                 isDetailedLoading, detailedError, explore, toasts>>

\* setAiSummary(data.summary || "No summary generated."), finally, and the
\* call of incrementUsage
SummarySucceeded(i) ==
  /\ aiSummary' = [of |-> i]
  /\ isLoading' = FALSE
  /\ search' = [search EXCEPT ![i].pc = "incrementUsage", ![i].usage = @ + 1]
  /\ UNCHANGED apiError

\* the catch, were incrementUsage called inside the try block only
SummaryFailedUncounted(i) ==
  /\ apiError' = [of |-> i]
  /\ isLoading' = FALSE
  /\ search' = [search EXCEPT ![i] = Ended(search[i], "done")]
  /\ UNCHANGED aiSummary

\* catch: setApiError(error.message || ...), finally, and the call of
\* incrementUsage
SummaryFailed(i) ==
  /\ apiError' = [of |-> i]
  /\ isLoading' = FALSE
  /\ search' = [search EXCEPT ![i].pc = "incrementUsage", ![i].usage = @ + 1]
  /\ UNCHANGED aiSummary

\* fetch rejects (the network failed)
FetchRejects(i) ==
  /\ search[i].pc = "fetch"
  /\ SummaryFailed(i)
  /\ UNCHANGED <<isCheckingInitialAccess, initialAccessAllowed, searchQuery,
                 searchResults, detailedInfo, isDetailedLoading, detailedError,
                 explore, toasts>>

\* response.json() resolves: a not-ok response throws into the catch
JsonResolves(i) ==
  /\ search[i].pc = "json"
  /\ IF search[i].ok
     THEN SummarySucceeded(i)
     ELSE SummaryFailed(i)
  /\ UNCHANGED <<isCheckingInitialAccess, initialAccessAllowed, searchQuery,
                 searchResults, detailedInfo, isDetailedLoading, detailedError,
                 explore, toasts>>

\* response.json() rejects (the body is not JSON)
JsonRejects(i) ==
  /\ search[i].pc = "json"
  /\ SummaryFailed(i)
  /\ UNCHANGED <<isCheckingInitialAccess, initialAccessAllowed, searchQuery,
                 searchResults, detailedInfo, isDetailedLoading, detailedError,
                 explore, toasts>>

\* incrementUsage settles and handleSearch ends
IncrementUsageSettles(i) ==
  /\ search[i].pc = "incrementUsage"
  /\ search' = [search EXCEPT ![i] = Ended(search[i], "done")]
  /\ UNCHANGED <<isCheckingInitialAccess, initialAccessAllowed, searchQuery,
                 searchResults, aiSummary, isLoading, apiError, detailedInfo,
                 isDetailedLoading, detailedError, explore, toasts>>

\* the condition under which the Explore More button is rendered
ExploreButtonShown ==
  /\ FormRendered
  /\ ~isLoading
  /\ aiSummary # Null
  /\ apiError = Null
  /\ detailedInfo = "null"
  /\ ~isDetailedLoading
  /\ detailedError = "null"

\* handleExploreMore up to the await of fetch
ExploreMore ==
  /\ ExploreButtonShown
  /\ searchQuery # <<>>
  /\ isDetailedLoading' = TRUE
  /\ detailedInfo' = "null"
  /\ detailedError' = "null"
  /\ explore' = "fetch"
  /\ UNCHANGED <<isCheckingInitialAccess, initialAccessAllowed, searchQuery,
                 searchResults, aiSummary, isLoading, apiError, search, toasts>>

\* fetch resolves: the body is awaited, as text when the response is not ok
ExploreFetchResolves ==
  /\ explore = "fetch"
  /\ \E ok \in BOOLEAN : explore' = IF ok THEN "json" ELSE "text"
  /\ UNCHANGED <<isCheckingInitialAccess, initialAccessAllowed, searchQuery,
                 searchResults, aiSummary, isLoading, apiError, detailedInfo,
                 isDetailedLoading, detailedError, search, toasts>>

\* setDetailedInfo(data.details || "No detailed information generated.")
ExploreSucceeds ==
  /\ explore = "json"
  /\ detailedInfo' = "details"
  /\ isDetailedLoading' = FALSE
  /\ explore' = "idle"
  /\ UNCHANGED <<isCheckingInitialAccess, initialAccessAllowed, searchQuery,
                 searchResults, aiSummary, isLoading, apiError, detailedError,
                 search, toasts>>

\* fetch or response.json() rejects, or the response is not ok: the catch
ExploreFails ==
  /\ explore \in {"fetch", "json", "text"}
  /\ detailedError' = "message"
  /\ isDetailedLoading' = FALSE
  /\ explore' = "idle"
  /\ UNCHANGED <<isCheckingInitialAccess, initialAccessAllowed, searchQuery,
                 searchResults, aiSummary, isLoading, apiError, detailedInfo,
                 search, toasts>>

(***************************************************************************)
(* The extractor as the page calls it: each render evaluates               *)
(* parseDetailedInfo(detailedInfo) and, when sections came back, maps      *)
(* Object.entries over them to build the accordion.                        *)
(***************************************************************************)
NotReturned == [threw |-> FALSE, sections |-> <<>>]

Init ==
  /\ details \in Inputs
  /\ returned = NotReturned
  /\ accordion = <<>>
  /\ pc = "call"
  /\ InitPage

Render ==
  /\ pc = "call"
  /\ returned' = parseDetailedInfo(details)
  /\ accordion' = IF returned'.threw THEN <<>> ELSE ObjectEntries(returned'.sections)
  /\ pc' = "rendered"
  /\ UNCHANGED <<details, pageVars>>

Next == Render

Spec == Init /\ [][Next]_vars

(***************************************************************************)
(* C1 .. C7: the extractor. The statements below read the call's argument  *)
(* and result; spans of the text are taken with SubSeq and trimming is     *)
(* stated as a relation, not computed.                                     *)
(***************************************************************************)
\* the call returned for a string argument
StringCall == pc = "rendered" /\ details.kind = "string"

\* the headings detected in the text, in document order
Headings == FindMatches(details.str, 0)

Sections == returned.sections

AllSpace(s) == \A k \in 1..Len(s) : s[k] \in WhiteSpace

\* v is raw without its leading and trailing white space
IsTrimOf(v, raw) ==
  /\ v # <<>> => v[1] \notin WhiteSpace /\ v[Len(v)] \notin WhiteSpace
  /\ \E a \in 0..(Len(raw) - Len(v)) :
       /\ v = SubSeq(raw, a + 1, a + Len(v))
       /\ AllSpace(SubSeq(raw, 1, a))
       /\ AllSpace(SubSeq(raw, a + Len(v) + 1, Len(raw)))

\* the text from the end of the marker of heading i of hs to the start of
\* the next heading's marker, or to the end of the text
BodySpan(hs, i) ==
  SubSeq(details.str, hs[i].index + hs[i].length + 1,
         IF i < Len(hs) THEN hs[i + 1].index ELSE Len(details.str))

RepeatedLater(hs, i) == \E j \in (i + 1)..Len(hs) : hs[j].title = hs[i].title

\* the titles in the order of their first appearance
RECURSIVE FirstAppearances(_)
FirstAppearances(ts) ==
  IF ts = <<>> THEN <<>>
  ELSE LET before == FirstAppearances(SubSeq(ts, 1, Len(ts) - 1))
       IN  IF \E k \in 1..Len(before) : before[k] = ts[Len(ts)]
           THEN before ELSE Append(before, ts[Len(ts)])

\* C1: the keys of the returned map iterate (Object.entries, as the accordion
\* uses it) in the order in which their headings first appeared in the text,
\* whatever the titles are.
C1_KeysInHeadingOrder ==
  StringCall =>
    LET hs == Headings
    IN  [k \in 1..Len(accordion) |-> accordion[k][1]]
          = FirstAppearances([i \in 1..Len(hs) |-> hs[i].title])

\* C2: parseDetailedInfo throws for no input, string or not.
C2_NeverThrows == pc = "rendered" => ~returned.threw

\* C3: the value stored under the title of a heading that is not repeated
\* later is the trimmed text between the end of its marker and the start of
\* the next marker (or the end of the text); every value is the trimmed body
\* of a heading with that title, so the text before the first heading is in
\* no key and no value.
C3_BodyBetweenHeadings ==
  StringCall =>
    LET hs == Headings
    IN  /\ ~returned.threw
        /\ \A i \in 1..Len(hs) :
             ~RepeatedLater(hs, i) =>
               /\ HasKey(Sections, hs[i].title)
               /\ IsTrimOf(Get(Sections, hs[i].title), BodySpan(hs, i))
        /\ \A k \in 1..Len(Sections) :
             \E i \in 1..Len(hs) :
               /\ Sections[k].key = hs[i].title
               /\ IsTrimOf(Sections[k].value, BodySpan(hs, i))

\* a preamble, then two headings with different titles, the first body with
\* white space around its text
C3_Witness ==
  /\ StringCall
  /\ LET hs == Headings
     IN  /\ Len(hs) = 2
         /\ hs[1].index > 0
         /\ hs[1].title # hs[2].title
         /\ BodySpan(hs, 1) # <<>>
         /\ BodySpan(hs, 1)[1] \in WhiteSpace
         /\ ~AllSpace(BodySpan(hs, 1))
  /\ Len(Sections) = 2

\* C4: headings with the same trimmed title leave one entry, whose value is
\* the trimmed body of the last of them; there are as many keys as distinct
\* trimmed titles.
C4_LastWriteWins ==
  StringCall =>
    LET hs == Headings
    IN  /\ \A k, l \in 1..Len(Sections) : Sections[k].key = Sections[l].key => k = l
        /\ Len(Sections) = Cardinality({ hs[i].title : i \in 1..Len(hs) })
        /\ \A i \in 1..Len(hs) :
             ~RepeatedLater(hs, i) =>
               \E k \in 1..Len(Sections) :
                 /\ Sections[k].key = hs[i].title
                 /\ IsTrimOf(Sections[k].value, BodySpan(hs, i))

\* two headings with the same title, the body of the first not the value
C4_Witness ==
  /\ StringCall
  /\ LET hs == Headings
     IN  /\ Len(Sections) < Len(hs)
         /\ \E i, j \in 1..Len(hs) :
              /\ i < j
              /\ hs[i].title = hs[j].title
              /\ ~RepeatedLater(hs, j)
              /\ ~AllSpace(BodySpan(hs, i))
              /\ ~IsTrimOf(Get(Sections, hs[j].title), BodySpan(hs, i))

\* the heading pattern read as a language: at offset p there are digits, a
\* period, white space, "**", white space, a title of one or more characters
\* none of which is a line terminator, white space and ":**"
HeadingPatternFrom(s, p) ==
  \E a \in (p + 1)..Len(s) :
    /\ \A k \in (p + 1)..a : s[k] \in Digits
    /\ CharAt(s, a) = "."
    /\ \E b \in (a + 1)..Len(s) :
         /\ \A k \in (a + 2)..b : s[k] \in WhiteSpace
         /\ CharAt(s, b) = "*" /\ CharAt(s, b + 1) = "*"
         /\ \E t \in (b + 2)..Len(s) :
              /\ \A k \in (b + 3)..t : s[k] \in WhiteSpace
              /\ \E e \in (t + 1)..Len(s) :
                   /\ \A k \in (t + 1)..e : s[k] \notin LineTerminators
                   /\ \E c \in e..Len(s) :
                        /\ \A k \in (e + 1)..c : s[k] \in WhiteSpace
                        /\ CharAt(s, c) = ":" /\ CharAt(s, c + 1) = "*"
                        /\ CharAt(s, c + 2) = "*"

\* the text has a line that starts with the heading pattern
HasHeadingLine(s) ==
  \E p \in 0..Len(s) :
    /\ p = 0 \/ s[p] \in LineTerminators
    /\ HeadingPatternFrom(s, p)

\* C5: the result is the empty map for null, undefined and the empty string,
\* and for a text with no line that matches the heading pattern.
C5_EmptyWithoutHeadings ==
  pc = "rendered" =>
    /\ details.kind \in {"null", "undefined"} => ~returned.threw /\ Sections = <<>>
    /\ details.kind = "string" /\ ~HasHeadingLine(details.str) =>
         ~returned.threw /\ Sections = <<>>

\* a text that holds the heading pattern, but not at the start of a line
C5_Witness ==
  /\ StringCall
  /\ Sections = <<>>
  /\ ~HasHeadingLine(details.str)
  /\ \E p \in 1..Len(details.str) : HeadingPatternFrom(details.str, p)

\* the offset just after the opening "**" of the heading detected at p
OpeningEnd(s, p) ==
  LET q == p + Run(s, p, Digits) + 1 IN q + Run(s, q, WhiteSpace) + 2

HasColonStarsFrom(s, from) == \E c \in from..Len(s) : ColonStars(s, c)

\* the offset of the first ":**" at or after from
FirstColonStars(s, from) ==
  CHOOSE c \in from..Len(s) :
    ColonStars(s, c) /\ \A d \in from..(c - 1) : ~ColonStars(s, d)

\* C6 as claimed: the key of every heading is the trimmed text between its
\* opening "**" and the first ":**" after it; the match never runs on to a
\* later ":**".
C6_KeyEndsAtFirstColonStars ==
  StringCall =>
    LET s == details.str
        hs == Headings
    IN  \A i \in 1..Len(hs) :
          LET o == OpeningEnd(s, hs[i].index)
          IN  /\ HasKey(Sections, hs[i].title)
              /\ IsTrimOf(hs[i].title, SubSeq(s, o + 1, FirstColonStars(s, o)))

\* C6 as amended: the captured title has at least one character. When ":**"
\* does not directly follow the opening "**" and its white space, the key is
\* the trimmed text between the opening "**" and the first ":**" after it.
\* When it does, the key is the trimmed text from that ":**" to the next
\* ":**", if one can be reached without crossing a line terminator, and
\* else the empty string.
C6_KeyEndsAtFirstColonStarsAfterOneCharacter ==
  StringCall =>
    LET s == details.str
        hs == Headings
    IN  \A i \in 1..Len(hs) :
          LET o == OpeningEnd(s, hs[i].index)
              t == o + Run(s, o, WhiteSpace)
              key == hs[i].title
              next == SubSeq(s, t + 1, FirstColonStars(s, t + 1))
              runsOn ==
                /\ HasColonStarsFrom(s, t + 1)
                /\ \A k \in 1..Len(next) :
                     next[k] \in LineTerminators => AllSpace(SubSeq(next, k, Len(next)))
          IN  /\ HasKey(Sections, key)
              /\ IF ~ColonStars(s, t)
                 THEN IsTrimOf(key, SubSeq(s, o + 1, FirstColonStars(s, o)))
                 ELSE IF runsOn THEN IsTrimOf(key, next)
                 ELSE key = <<>>

\* a heading whose title holds ":**": the key stops at the first one
C6_Witness ==
  /\ StringCall
  /\ LET s == details.str
         hs == Headings
     IN  \E i \in 1..Len(hs) :
           LET o == OpeningEnd(s, hs[i].index)
               c == FirstColonStars(s, o)
           IN  /\ hs[i].title # <<>>
               /\ hs[i].index + hs[i].length = c + 3
               /\ HasKey(Sections, hs[i].title)
               /\ \E d \in (c + 3)..Len(s) :
                    /\ ColonStars(s, d)
                    /\ \A k \in (o + 1)..d : s[k] \notin LineTerminators

\* C7 as claimed: every heading's title is a key, its value the empty string
\* when the heading's body is empty or white space; every value is a string.
C7_EmptyBodyEmptyValue ==
  StringCall =>
    LET hs == Headings
    IN  /\ \A i \in 1..Len(hs) :
             /\ HasKey(Sections, hs[i].title)
             /\ AllSpace(BodySpan(hs, i)) => Get(Sections, hs[i].title) = <<>>
        /\ \A k \in 1..Len(Sections) : Sections[k].value \in Seq(STRING)

\* C7 as amended: every heading's title is a key, its value the empty string
\* when the heading's body is empty or white space and no later heading has
\* the same title; every value is a string.
C7_EmptyBodyEmptyValueUnlessRepeated ==
  StringCall =>
    LET hs == Headings
    IN  /\ \A i \in 1..Len(hs) :
             /\ HasKey(Sections, hs[i].title)
             /\ AllSpace(BodySpan(hs, i)) /\ ~RepeatedLater(hs, i) =>
                  Get(Sections, hs[i].title) = <<>>
        /\ \A k \in 1..Len(Sections) : Sections[k].value \in Seq(STRING)

\* a heading with a body of white space only, before a heading with a body
C7_Witness ==
  /\ StringCall
  /\ LET hs == Headings
     IN  /\ Len(hs) = 2
         /\ BodySpan(hs, 1) # <<>>
         /\ AllSpace(BodySpan(hs, 1))
         /\ ~AllSpace(BodySpan(hs, 2))
         /\ Get(Sections, hs[1].title) = <<>>
         /\ Get(Sections, hs[2].title) # <<>>

(***************************************************************************)
(* The page's handlers, interleaved at their awaits. A promise that is     *)
(* awaited settles: the steps after an await are weakly fair.              *)
(***************************************************************************)
InitUI ==
  /\ details = JsNull
  /\ returned = NotReturned
  /\ accordion = <<>>
  /\ pc = "call"
  /\ InitPage

NextUI ==
  \/ VerifyInitialAccess /\ UNCHANGED parserVars
  \/ \E q \in Queries : SetSearchQuery(q) /\ UNCHANGED parserVars
  \/ \E i \in Searches : Submit(i) /\ UNCHANGED parserVars
  \/ \E i \in Searches : CheckAccessResolves(i) /\ UNCHANGED parserVars
  \/ \E i \in Searches : CheckAccessRejects(i) /\ UNCHANGED parserVars
  \/ \E i \in Searches : FetchResolves(i) /\ UNCHANGED parserVars
  \/ \E i \in Searches : FetchRejects(i) /\ UNCHANGED parserVars
  \/ \E i \in Searches : JsonResolves(i) /\ UNCHANGED parserVars
  \/ \E i \in Searches : JsonRejects(i) /\ UNCHANGED parserVars
  \/ \E i \in Searches : IncrementUsageSettles(i) /\ UNCHANGED parserVars
  \/ ExploreMore /\ UNCHANGED parserVars
  \/ ExploreFetchResolves /\ UNCHANGED parserVars
  \/ ExploreSucceeds /\ UNCHANGED parserVars
  \/ ExploreFails /\ UNCHANGED parserVars

\* the steps of handleSearch invocation i that follow an await
SearchSettles(i) ==
  /\ \/ CheckAccessResolves(i)
     \/ CheckAccessRejects(i)
     \/ FetchResolves(i)
     \/ FetchRejects(i)
     \/ JsonResolves(i)
     \/ JsonRejects(i)
     \/ IncrementUsageSettles(i)
  /\ UNCHANGED parserVars

SpecUI ==
  /\ InitUI
  /\ [][NextUI]_vars
  /\ \A i \in Searches : WF_vars(SearchSettles(i))

(***************************************************************************)
(* C8, C9, C10: the search handler                                         *)
(***************************************************************************)
\* the latest invocation of handleSearch that started a search, 0 if none
LatestSearch ==
  LET started == { i \in Searches : search[i].requests > 0 }
  IN  IF started = {} THEN 0 ELSE CHOOSE i \in started : \A j \in started : j <= i

\* C8: when checkAccess answers allowed = false, handleSearch sends no request
\* to the summary endpoint, does not call incrementUsage, and leaves
\* searchResults, aiSummary, apiError, detailedInfo, detailedError and
\* isLoading as they were; it shows a toast and nothing else.
C8_DeniedSearchChangesNothing ==
  /\ [](\A i \in Searches :
          search[i].pc = "denied" => search[i].requests = 0 /\ search[i].usage = 0)
  /\ [][\A i \in Searches :
          (search[i].pc = "checkAccess" /\ search'[i].pc = "denied") =>
            /\ search'[i].requests = search[i].requests
            /\ search'[i].usage = search[i].usage
            /\ toasts' = toasts + 1
            /\ UNCHANGED <<searchResults, aiSummary, apiError, detailedInfo,
                           detailedError, isLoading>>]_vars

\* a search was denied while an earlier search's links and summary are shown
C8_Witness ==
  \E i \in Searches :
    /\ search[i].pc = "denied"
    /\ aiSummary # Null
    /\ searchResults # NoLinks

\* C9: aiSummary and apiError are never both set, and once loading is over
\* the summary or error shown is the answer to the latest search that was
\* started.
C9_SummaryOfLatestSearch ==
  /\ ~(aiSummary # Null /\ apiError # Null)
  /\ ~isLoading =>
       /\ aiSummary # Null => aiSummary.of = LatestSearch
       /\ apiError # Null => apiError.of = LatestSearch

\* C10: an invocation that passed the access check with a non-empty trimmed
\* query eventually sets isLoading to false and, in that same step, calls
\* incrementUsage, once, whether the summary request succeeded or failed;
\* incrementUsage is not called before the request has settled, nor by an
\* invocation that was denied or had an empty trimmed query.
C10_UsageIncrementedOnce ==
  /\ [](\A i \in Searches :
          /\ search[i].usage <= 1
          /\ search[i].usage = 1 => search[i].pc \in {"incrementUsage", "done"}
          /\ search[i].pc = "done" => search[i].usage = 1 /\ search[i].requests = 1
          /\ search[i].pc \in {"denied", "empty", "rejected"} => search[i].usage = 0)
  /\ [][\A i \in Searches :
          search'[i].usage # search[i].usage =>
            /\ search[i].pc \in {"fetch", "json"}
            /\ search'[i].usage = 1
            /\ isLoading' = FALSE]_vars
  /\ \A i \in Searches :
       (search[i].pc = "fetch") ~> (search[i].pc = "done" /\ search[i].usage = 1)

\* an invocation whose summary request failed has ended, its usage counted
C10_Witness ==
  \E i \in Searches :
    /\ search[i].pc = "done"
    /\ search[i].usage = 1
    /\ apiError.of = i

====
